---------------------------- MODULE Spec2Model ----------------------------
(***************************************************************************)
(* pymatcher: least-squares selection of ideal functions for training      *)
(* series (TrainingData.find_ideal_functions) and classification of test   *)
(* points against the selected functions (TestData.map_to_functions).      *)
(*                                                                         *)
(* Sample values are integers.  For integer-valued float64 samples of the  *)
(* sizes used here every subtraction, square, sum and square root of the   *)
(* program is exact in IEEE double arithmetic, and d*sqrt(2) <= M decides  *)
(* like 2*d*d <= M*M (d, M >= 0).                                          *)
(***************************************************************************)
EXTENDS Integers, Sequences, FiniteSets, TLC

VARIABLES
    training_data,      \* TrainingData._training_data (DataFrame)
    ideal_functions,    \* Data._ideal_functions (DataFrame)
    pc,                 \* position of the run
    t_pos,              \* number of training columns taken from iter_training()
    i_pos,              \* number of ideal columns taken from iter_ideal()
    min_dev_sum,        \* find_ideal_functions local
    min_dev,            \* find_ideal_functions local
    min_name,           \* find_ideal_functions local
    result_frames,      \* find_ideal_functions local
    deviations,         \* find_ideal_functions local
    saved_deviations,   \* TrainingData._deviations
    training_result,    \* value returned by find_ideal_functions (result_data)
    test_file,          \* rows of the csv file at test_filepath read so far
    x,                  \* map_to_functions local
    y,                  \* map_to_functions local
    matched,            \* map_to_functions local
    c_pos,              \* number of columns taken from result_data.iteritems()
    result_df,          \* map_to_functions local
    test_result,        \* value returned by map_to_functions
    raised,             \* exception that ended the run, "" when none
    arg_training,       \* operand of a direct _squared_error call
    arg_ideal,          \* operand of a direct _squared_error call
    ret,                \* outcome of a direct call
    cfg,                \* main: the dict load_config returned
    arg_key,            \* key of a direct read_string_from_config call
    train_file,         \* the csv file at TRAIN_PATH
    ideal_file,         \* the csv file at IDEAL_PATH
    test_x_column,      \* whether the csv file at TEST_PATH has a column x
    engine,             \* whether Database._engine has been created
    tables,             \* the tables of the sqlite database
    grid,               \* Plotter.grid as shown by show_results
    connections,        \* number of open connections of Database._engine
    ops,                \* number of Database operations called directly
    call                \* the Database operation in progress

vars == <<training_data, ideal_functions, pc, t_pos, i_pos, min_dev_sum,
          min_dev, min_name, result_frames, deviations, saved_deviations,
          training_result, test_file, x, y, matched, c_pos,
          result_df, test_result, raised, arg_training, arg_ideal, ret,
          cfg, arg_key, train_file, ideal_file, test_x_column, engine, tables,
          grid, connections, ops, call>>

select_vars == <<t_pos, i_pos, min_dev_sum, min_dev, min_name, result_frames,
                 deviations, saved_deviations, training_result>>

map_vars == <<test_file, x, y, matched, c_pos, result_df, test_result>>

call_vars == <<arg_training, arg_ideal, ret>>

input_vars == <<training_data, ideal_functions>>

db_vars == <<connections, ops, call>>

main_vars == <<cfg, arg_key, train_file, ideal_file, test_x_column, engine,
               tables, grid, db_vars>>

-----------------------------------------------------------------------------
(* Bounds of the model *)

\* sample values (y) of the series range over 0..MaxVal when
\* find_ideal_functions or map_to_functions runs alone
MaxVal == 1

\* sample values (y) of the series and test points of a run of main range
\* over 0..MaxMainVal
MaxMainVal == 3

\* most rows of the test file of a run of main
MaxTest == 2

\* most elements of an array handed to _squared_error directly
MaxLen == 2

\* a result_data handed to map_to_functions directly holds the squares of
\* 0..MaxDev as maximum deviations
MaxDev == 3

\* Database operations called one after the other
MaxOps == 3

-----------------------------------------------------------------------------
(* Python values: a value carries its type *)

float64(v) == [type |-> "float64", val |-> v]
float(v) == [type |-> "float", val |-> v]
int64(v) == [type |-> "int64", val |-> v]
ndarray(s) == [type |-> "ndarray", val |-> s]
str(s) == [type |-> "str", val |-> s]
None == [type |-> "NoneType", val |-> <<>>]
\* a local variable no assignment has bound yet
Unbound == [type |-> "unbound", val |-> <<>>]

\* outcome of a call: the exception it raised ("" when none) and its value
Return(v) == [exc |-> "", value |-> v]
Raise(e) == [exc |-> e, value |-> None]

RECURSIVE SumSeq(_)
SumSeq(s) == IF s = <<>> THEN 0 ELSE Head(s) + SumSeq(Tail(s))

\* numpy.ndarray.sum
sum(a) == SumSeq(a.val)

\* the sum taken for the maximum
max_AsSum(a) == SumSeq(a.val)

\* numpy.ndarray.max (of a non-empty array)
max(a) == CHOOSE m \in {a.val[k] : k \in DOMAIN a.val} :
              \A k \in DOMAIN a.val : a.val[k] <= m

\* math.sqrt, on the perfect squares the program hands it
sqrt(v) == CHOOSE r \in 0..v : r * r = v

-----------------------------------------------------------------------------
(* pandas tables *)

\* a DataFrame read by utils.read_data: the x column is the index, every
\* other column is a named series of as many values
DataFrame(index, columns) == [index |-> index, columns |-> columns]

Column(name, data) == [name |-> name, data |-> data]

\* Series.to_numpy
to_numpy(column) == ndarray(column.data)

\* list(DataFrame): the column names in column order
column_names(df) == [k \in DOMAIN df.columns |-> df.columns[k].name]

\* the position of the first column called name, 0 when there is none
ColumnPos(df, name) ==
    IF \E k \in DOMAIN df.columns : df.columns[k].name = name
    THEN CHOOSE k \in DOMAIN df.columns :
             /\ df.columns[k].name = name
             /\ \A j \in 1..(k - 1) : df.columns[j].name # name
    ELSE 0

\* Data.ideal_column_by_name: the series of that name with the frame's index
ideal_column_by_name(df, name) ==
    [index |-> df.index, data |-> df.columns[ColumnPos(df, name)].data]

\* an absent label read as 0.0
getitem_ZeroWhenAbsent(series, label) ==
    IF \E k \in DOMAIN series.index : series.index[k] = label
    THEN Return(float64(series.data[CHOOSE k \in DOMAIN series.index :
                                        series.index[k] = label]))
    ELSE Return(float64(0))

\* Series[label]: the value at index label, KeyError when the label is absent
getitem(series, label) ==
    IF \E k \in DOMAIN series.index : series.index[k] = label
    THEN Return(float64(series.data[CHOOSE k \in DOMAIN series.index :
                                        series.index[k] = label]))
    ELSE Raise("KeyError")

-----------------------------------------------------------------------------
(* Data._squared_error *)

\* the deviations left unsquared
_squared_error_Unsquared(training, ideal) ==
    IF training.type # ideal.type
    THEN Raise("TypesDoNotMatchException")
    ELSE IF training.type = "ndarray"
    THEN IF Len(training.val) # Len(ideal.val)
         THEN Raise("IndexCountDoesNotMatchException")
         ELSE Return(ndarray([k \in DOMAIN training.val |->
                  training.val[k] - ideal.val[k]]))
    ELSE IF training.type = "float64"
    THEN Return(float(training.val - ideal.val))
    ELSE Raise("TypeError")

\* the unsupported-type test made before the type-mismatch test
_squared_error_UnsupportedFirst(training, ideal) ==
    IF training.type \notin {"ndarray", "float64"}
           \/ ideal.type \notin {"ndarray", "float64"}
    THEN Raise("TypeError")
    ELSE IF training.type # ideal.type
    THEN Raise("TypesDoNotMatchException")
    ELSE IF training.type = "ndarray"
    THEN IF Len(training.val) # Len(ideal.val)
         THEN Raise("IndexCountDoesNotMatchException")
         ELSE Return(ndarray([k \in DOMAIN training.val |->
                  (training.val[k] - ideal.val[k]) * (training.val[k] - ideal.val[k])]))
    ELSE Return(float((training.val - ideal.val) * (training.val - ideal.val)))

\* integer scalars squared like float64 scalars
_squared_error_IntegersSquared(training, ideal) ==
    IF training.type # ideal.type
    THEN Raise("TypesDoNotMatchException")
    ELSE IF training.type = "ndarray"
    THEN IF Len(training.val) # Len(ideal.val)
         THEN Raise("IndexCountDoesNotMatchException")
         ELSE Return(ndarray([k \in DOMAIN training.val |->
                  (training.val[k] - ideal.val[k]) * (training.val[k] - ideal.val[k])]))
    ELSE Return(float((training.val - ideal.val) * (training.val - ideal.val)))

_squared_error(training, ideal) ==
    IF training.type # ideal.type
    THEN Raise("TypesDoNotMatchException")
    ELSE IF training.type = "ndarray"
    THEN IF Len(training.val) # Len(ideal.val)
         THEN Raise("IndexCountDoesNotMatchException")
         ELSE Return(ndarray([k \in DOMAIN training.val |->
                  (training.val[k] - ideal.val[k]) * (training.val[k] - ideal.val[k])]))
    ELSE IF training.type = "float64"
    THEN Return(float((training.val - ideal.val) * (training.val - ideal.val)))
    ELSE Raise("TypeError")

-----------------------------------------------------------------------------
(* TrainingData.find_ideal_functions *)

\* pd.DataFrame(columns=function_columns): the named columns, no rows yet
EmptyFrame(names) == [k \in DOMAIN names |-> Column(names[k], <<>>)]

\* deviations[name] = data
SetColumn(frame, name, data) ==
    [k \in DOMAIN frame |->
        IF frame[k].name = name THEN Column(name, data) ELSE frame[k]]

\* the one-column frame appended to result_frames
ResultFrame(name, maximum_deviation, ideal_function) ==
    [name |-> name,
     maximum_deviation |-> maximum_deviation,
     ideal_function |-> ideal_function]

\* the minimum test with a sum of 0 taken for "no minimum yet"
IsNewMinimum_ZeroSentinel(dev_sum, current_min) ==
    current_min <= 0 \/ dev_sum < current_min

\* the minimum test with <= for <
IsNewMinimum_NotStrict(dev_sum, current_min) ==
    current_min = -1 \/ dev_sum <= current_min

\* the minimum test with > for <
IsNewMinimum_Greater(dev_sum, current_min) ==
    current_min = -1 \/ dev_sum > current_min

\* the minimum test of the scan
IsNewMinimum(dev_sum, current_min) ==
    current_min = -1 \/ dev_sum < current_min

EnterFind ==
    /\ pc = "find_ideal_functions"
    /\ deviations' = EmptyFrame(column_names(training_data))
    /\ result_frames' = <<>>
    /\ t_pos' = 0
    /\ pc' = "training_loop"
    /\ UNCHANGED <<i_pos, min_dev_sum, min_dev, min_name, saved_deviations,
                   training_result, raised>>
    /\ UNCHANGED <<input_vars, map_vars, call_vars, main_vars>>

\* the minimum of the previous training series kept for the next one
NextTraining_NoReset ==
    /\ pc = "training_loop"
    /\ t_pos < Len(training_data.columns)
    /\ t_pos' = t_pos + 1
    /\ i_pos' = 0
    /\ pc' = "ideal_loop"
    /\ UNCHANGED <<min_dev_sum, min_dev, min_name, result_frames, deviations,
                   saved_deviations, training_result, raised>>
    /\ UNCHANGED <<input_vars, map_vars, call_vars, main_vars>>

NextTraining ==
    /\ pc = "training_loop"
    /\ t_pos < Len(training_data.columns)
    /\ t_pos' = t_pos + 1
    /\ min_dev_sum' = -1
    /\ i_pos' = 0
    /\ pc' = "ideal_loop"
    /\ UNCHANGED <<min_dev, min_name, result_frames, deviations,
                   saved_deviations, training_result, raised>>
    /\ UNCHANGED <<input_vars, map_vars, call_vars, main_vars>>

ScanIdeal ==
    /\ pc = "ideal_loop"
    /\ i_pos < Len(ideal_functions.columns)
    /\ LET training_set == training_data.columns[t_pos]
           ideal_function == ideal_functions.columns[i_pos + 1]
           r == _squared_error(to_numpy(training_set), to_numpy(ideal_function))
           dev == r.value
           dev_sum == sum(dev)
       IN  IF r.exc # ""
           THEN /\ raised' = r.exc
                /\ pc' = "raised"
                /\ UNCHANGED <<i_pos, min_dev, min_dev_sum, min_name>>
           ELSE /\ i_pos' = i_pos + 1
                /\ IF IsNewMinimum(dev_sum, min_dev_sum)
                   THEN /\ min_dev' = dev
                        /\ min_dev_sum' = dev_sum
                        /\ min_name' = ideal_function.name
                   ELSE UNCHANGED <<min_dev, min_dev_sum, min_name>>
                /\ UNCHANGED <<pc, raised>>
    /\ UNCHANGED <<t_pos, result_frames, deviations, saved_deviations,
                   training_result>>
    /\ UNCHANGED <<input_vars, map_vars, call_vars, main_vars>>

SaveIdeal ==
    /\ pc = "ideal_loop"
    /\ i_pos = Len(ideal_functions.columns)
    /\ LET training_set == training_data.columns[t_pos]
       IN  IF min_dev = Unbound
           THEN /\ raised' = "UnboundLocalError"
                /\ pc' = "raised"
                /\ UNCHANGED <<result_frames, deviations>>
           ELSE /\ result_frames' = Append(result_frames,
                        ResultFrame(training_set.name, max(min_dev), min_name))
                /\ deviations' = SetColumn(deviations, training_set.name,
                                           min_dev.val)
                /\ pc' = "training_loop"
                /\ UNCHANGED raised
    /\ UNCHANGED <<t_pos, i_pos, min_dev_sum, min_dev, min_name,
                   saved_deviations, training_result>>
    /\ UNCHANGED <<input_vars, map_vars, call_vars, main_vars>>

ReturnFind ==
    /\ pc = "training_loop"
    /\ t_pos = Len(training_data.columns)
    /\ saved_deviations' = deviations
    /\ IF result_frames = <<>>
       THEN /\ raised' = "ValueError"
            /\ pc' = "raised"
            /\ UNCHANGED training_result
       ELSE /\ training_result' = result_frames
            /\ pc' = "selected"
            /\ UNCHANGED raised
    /\ UNCHANGED <<t_pos, i_pos, min_dev_sum, min_dev, min_name,
                   result_frames, deviations>>
    /\ UNCHANGED <<input_vars, map_vars, call_vars, main_vars>>

-----------------------------------------------------------------------------
(* TestData.map_to_functions *)

\* the criterion with < for <=
_mapping_criterion_Strict(deviation, max_deviation) ==
    2 * deviation * deviation < max_deviation * max_deviation

_mapping_criterion(deviation, max_deviation) ==
    2 * deviation * deviation <= max_deviation * max_deviation

_create_result_row(px, py, delta_y, no) ==
    [X |-> px, Y |-> py, Delta_Y |-> delta_y, No_of_ideal_func |-> no]

\* the row appended for a test point no function complies with
UnmatchedRow(px, py) == _create_result_row(px, py, str(""), "")

\* the matched row with the squared deviation as Delta Y
MatchedRow_Squared(px, py, dev, no) == _create_result_row(px, py, float(dev), no)

\* the row appended for a test point that complies with ideal function no
MatchedRow(px, py, dev, no) == _create_result_row(px, py, float(sqrt(dev)), no)

\* the row put in front of the table
append_Front(df, row) == <<row>> \o df

\* DataFrame.append(row, ignore_index=True)
append(df, row) == Append(df, row)

\* the row without result appended for every test point
NoFunctionComplies_Always(matched_flag) == TRUE

\* "if not matched"
NoFunctionComplies(matched_flag) == ~matched_flag

\* what one pass of the loop body over a result column does: the exception
\* it raises ("" when none) and whether the criterion accepted the point
MapOutcome(result_column, px, py) ==
    LET ideal_f_name == result_column.ideal_function
        f_max_deviation == result_column.maximum_deviation
    IN  IF ColumnPos(ideal_functions, ideal_f_name) = 0
        THEN [exc |-> "KeyError", accepted |-> FALSE, dev |-> 0]
        ELSE LET f_values == ideal_column_by_name(ideal_functions, ideal_f_name)
                 looked == getitem(f_values, px)
                 r == _squared_error(py, looked.value)
             IN  IF looked.exc # ""
                 THEN [exc |-> looked.exc, accepted |-> FALSE, dev |-> 0]
                 ELSE IF r.exc # ""
                 THEN [exc |-> r.exc, accepted |-> FALSE, dev |-> 0]
                 ELSE [exc |-> "",
                       accepted |-> _mapping_criterion(r.value.val, f_max_deviation),
                       dev |-> r.value.val]

EnterMap ==
    /\ pc = "selected"
    /\ result_df' = <<>>
    /\ test_file' = <<>>
    /\ pc' = "row_loop"
    /\ UNCHANGED <<x, y, matched, c_pos, test_result, raised>>
    /\ UNCHANGED <<input_vars, select_vars, call_vars, main_vars>>

\* row['y'].iloc[0]: the y of the row just read, a scalar of the dtype
\* read_csv inferred for the one-row chunk
iloc_y == [type |-> test_file[Len(test_file)].dtype, val |-> y]

\* row_reader yields one more row of a file of at most limit rows; row['x']
\* raises KeyError when the file has no column x
ReadRow(points, limit) ==
    /\ pc = "row_loop"
    /\ Len(test_file) < limit
    /\ IF ~test_x_column
       THEN /\ raised' = "KeyError"
            /\ pc' = "raised"
            /\ UNCHANGED <<test_file, x, y, matched, c_pos>>
       ELSE /\ \E row \in points :
                   /\ test_file' = Append(test_file, row)
                   /\ x' = row.x
                   /\ y' = row.y
            /\ matched' = FALSE
            /\ c_pos' = 0
            /\ pc' = "column_loop"
            /\ UNCHANGED raised
    /\ UNCHANGED <<result_df, test_result>>
    /\ UNCHANGED <<input_vars, select_vars, call_vars, main_vars>>

MapColumn ==
    /\ pc = "column_loop"
    /\ c_pos < Len(training_result)
    /\ LET result_column == training_result[c_pos + 1]
           o == MapOutcome(result_column, x, iloc_y)
       IN  IF o.exc # ""
           THEN /\ raised' = o.exc
                /\ pc' = "raised"
                /\ UNCHANGED <<c_pos, result_df, matched>>
           ELSE /\ c_pos' = c_pos + 1
                /\ IF o.accepted
                   THEN /\ result_df' = append(result_df,
                               MatchedRow(x, y, o.dev, result_column.ideal_function))
                        /\ matched' = TRUE
                   ELSE UNCHANGED <<result_df, matched>>
                /\ UNCHANGED <<pc, raised>>
    /\ UNCHANGED <<test_file, x, y, test_result>>
    /\ UNCHANGED <<input_vars, select_vars, call_vars, main_vars>>

EndRow ==
    /\ pc = "column_loop"
    /\ c_pos = Len(training_result)
    /\ result_df' = IF NoFunctionComplies(matched)
                    THEN append(result_df, UnmatchedRow(x, y))
                    ELSE result_df
    /\ pc' = "row_loop"
    /\ UNCHANGED <<test_file, x, y, matched, c_pos, test_result, raised>>
    /\ UNCHANGED <<input_vars, select_vars, call_vars, main_vars>>

\* the columns of result_data consumed by the mapping
ReturnMap_ConsumesRecords ==
    /\ pc = "row_loop"
    /\ test_result' = result_df
    /\ training_result' = <<>>
    /\ pc' = "mapped"
    /\ UNCHANGED <<test_file, x, y, matched, c_pos, result_df, raised>>
    /\ UNCHANGED <<t_pos, i_pos, min_dev_sum, min_dev, min_name, result_frames,
                   deviations, saved_deviations>>
    /\ UNCHANGED <<input_vars, call_vars, main_vars>>

\* row_reader is exhausted
ReturnMap ==
    /\ pc = "row_loop"
    /\ test_result' = result_df
    /\ pc' = "mapped"
    /\ UNCHANGED <<test_file, x, y, matched, c_pos, result_df, raised>>
    /\ UNCHANGED <<input_vars, select_vars, call_vars, main_vars>>

-----------------------------------------------------------------------------
(* A direct call of Data._squared_error *)

CallSquaredError ==
    /\ pc = "_squared_error"
    /\ ret' = _squared_error(arg_training, arg_ideal)
    /\ pc' = "returned"
    /\ UNCHANGED <<arg_training, arg_ideal, raised>>
    /\ UNCHANGED <<input_vars, select_vars, map_vars, main_vars>>

-----------------------------------------------------------------------------
(* utils.read_string_from_config, utils.read_data *)

\* the exception of read_string_from_config for an empty value; it carries
\* the key
EmptyKeyValueException(key) ==
    [exc |-> "EmptyKeyValueException", value |-> None, key |-> key]

\* an empty value returned like any other value
read_string_from_config_EmptyAllowed(config, key) ==
    IF key \notin DOMAIN config
    THEN Raise("KeyError")
    ELSE Return(config[key])

read_string_from_config(config, key) ==
    IF key \notin DOMAIN config
    THEN Raise("KeyError")
    ELSE IF config[key] = ""
    THEN EmptyKeyValueException(key)
    ELSE Return(config[key])

\* the outcome of reading the keys one after the other: the first exception,
\* or the last value
RECURSIVE read_strings(_, _)
read_strings(config, keys) ==
    IF Len(keys) = 1
    THEN read_string_from_config(config, keys[1])
    ELSE IF read_string_from_config(config, keys[1]).exc # ""
    THEN read_string_from_config(config, keys[1])
    ELSE read_strings(config, Tail(keys))

\* a csv file: whether its header has a column x, and the frame it holds
\* with x as the index
CsvFile(x_column, frame) == [x_column |-> x_column, frame |-> frame]

\* the exceptions pd.read_csv(index_col='x') has for a file without a column
\* x, by pandas version
MissingIndexErrors == {"KeyError", "ValueError"}

\* utils.read_data for a file that has a column x
read_data(file) == file.frame

-----------------------------------------------------------------------------
(* main *)

\* the keys main reads, in the order it reads them
MainKeys == <<"dataDir", "trainFile", "idealFile", "testFile">>

\* the keys Database.__init__ reads, in the order it reads them
DatabaseKeys == <<"dbName", "trainingDataTable", "idealFunctionsTable",
                  "resultsTable">>

\* data.to_sql(name, con, if_exists="replace")
to_sql(db, name, data) ==
    [n \in DOMAIN db \cup {name} |-> IF n = name THEN data ELSE db[n]]

\* main, lines 35-49
ReadConfig ==
    /\ pc = "main"
    /\ LET r == read_strings(cfg, MainKeys)
       IN  IF r.exc # ""
           THEN raised' = r.exc /\ pc' = "raised"
           ELSE pc' = "Database" /\ UNCHANGED raised
    /\ UNCHANGED <<input_vars, select_vars, map_vars, call_vars, main_vars>>

\* Database.__init__: the engine is created after the four keys are read
Database_init ==
    /\ pc = "Database"
    /\ LET r == read_strings(cfg, DatabaseKeys)
       IN  IF r.exc # ""
           THEN raised' = r.exc /\ pc' = "raised" /\ UNCHANGED engine
           ELSE engine' = TRUE /\ pc' = "read_data" /\ UNCHANGED raised
    /\ UNCHANGED <<cfg, arg_key, train_file, ideal_file, test_x_column, tables,
                   grid>>
    /\ UNCHANGED db_vars
    /\ UNCHANGED <<input_vars, select_vars, map_vars, call_vars>>

\* main, lines 67-70
ReadData ==
    /\ pc = "read_data"
    /\ IF ~train_file.x_column \/ ~ideal_file.x_column
       THEN /\ raised' \in MissingIndexErrors
            /\ pc' = "raised"
            /\ UNCHANGED input_vars
       ELSE /\ training_data' = read_data(train_file)
            /\ ideal_functions' = read_data(ideal_file)
            /\ pc' = "update_tables"
            /\ UNCHANGED raised
    /\ UNCHANGED <<select_vars, map_vars, call_vars, main_vars>>

\* the tables written without the frames
UpdateTables_Nothing ==
    /\ pc = "update_tables"
    /\ pc' = "find_ideal_functions"
    /\ UNCHANGED <<tables, cfg, arg_key, train_file, ideal_file, test_x_column,
                   engine, grid, raised>>
    /\ UNCHANGED db_vars
    /\ UNCHANGED <<input_vars, select_vars, map_vars, call_vars>>

\* main, lines 71-72: update_training_table, update_ideal_functions_table
UpdateTables ==
    /\ pc = "update_tables"
    /\ tables' = to_sql(to_sql(tables, cfg["trainingDataTable"], training_data),
                        cfg["idealFunctionsTable"], ideal_functions)
    /\ pc' = "find_ideal_functions"
    /\ UNCHANGED <<cfg, arg_key, train_file, ideal_file, test_x_column, engine,
                   grid, raised>>
    /\ UNCHANGED db_vars
    /\ UNCHANGED <<input_vars, select_vars, map_vars, call_vars>>

\* the results table written whether or not map_to_functions returned
UpdateResultTable_Always ==
    /\ pc \in {"mapped", "raised"}
    /\ engine
    /\ cfg["resultsTable"] \notin DOMAIN tables
    /\ tables' = to_sql(tables, cfg["resultsTable"], result_df)
    /\ pc' = IF pc = "mapped" THEN "saved" ELSE pc
    /\ UNCHANGED <<cfg, arg_key, train_file, ideal_file, test_x_column, engine,
                   grid, raised>>
    /\ UNCHANGED db_vars
    /\ UNCHANGED <<input_vars, select_vars, map_vars, call_vars>>

\* main, line 85: update_result_table
UpdateResultTable ==
    /\ pc = "mapped"
    /\ tables' = to_sql(tables, cfg["resultsTable"], test_result)
    /\ pc' = "saved"
    /\ UNCHANGED <<cfg, arg_key, train_file, ideal_file, test_x_column, engine,
                   grid, raised>>
    /\ UNCHANGED db_vars
    /\ UNCHANGED <<input_vars, select_vars, map_vars, call_vars>>

\* the row labels of a column of the table find_ideal_functions returns
frame_index == <<"maximum_deviation", "ideal_function">>

\* column[key] for a column of that table
result_getitem(column, key) ==
    IF key = frame_index[1] THEN Return(column.maximum_deviation)
    ELSE IF key = frame_index[2] THEN Return(column.ideal_function)
    ELSE Raise("KeyError")

\* Plotter._found_ideal
_found_ideal(result, training_function) ==
    IF \A k \in DOMAIN result : result[k].name # training_function
    THEN Raise("KeyError")
    ELSE result_getitem(result[CHOOSE k \in DOMAIN result :
                                   result[k].name = training_function],
                        "ideal_f")

\* Plotter._points_by_name: the rows of the mapping table whose ideal
\* function is, or is not, the one found for the training column
_points_by_name(result, test, name, operator) ==
    IF \A k \in DOMAIN result : result[k].name # name
    THEN Raise("KeyError")
    ELSE LET res == result_getitem(result[CHOOSE k \in DOMAIN result :
                                              result[k].name = name],
                                   "ideal_f")
             Equal(row) == row.No_of_ideal_func = res.value
             Unequal(row) == row.No_of_ideal_func # res.value
         IN  IF res.exc # "" THEN res
             ELSE IF operator = "==" THEN Return(SelectSeq(test, Equal))
             ELSE IF operator = "!=" THEN Return(SelectSeq(test, Unequal))
             ELSE Raise("NotImplementedError")

\* main, lines 88-98: the Plotter is built, plot_results asks _found_ideal
\* for the ideal function of every training column and _points_by_name for
\* its mapped points, show_results shows the grid
PlotResults ==
    /\ pc = "saved"
    /\ LET names == column_names(training_data)
           failing == {k \in DOMAIN names :
                           _found_ideal(training_result, names[k]).exc # ""}
       IN  IF failing # {}
           THEN /\ raised' = _found_ideal(training_result,
                      names[CHOOSE k \in failing : \A j \in failing : k <= j]).exc
                /\ pc' = "raised"
                /\ UNCHANGED grid
           ELSE /\ grid' = [k \in DOMAIN names |->
                             [ideal_f |-> _found_ideal(training_result,
                                                       names[k]).value,
                              points |-> _points_by_name(training_result,
                                             test_result, names[k], "==").value]]
                /\ pc' = "shown"
                /\ UNCHANGED raised
    /\ UNCHANGED <<cfg, arg_key, train_file, ideal_file, test_x_column, engine,
                   tables>>
    /\ UNCHANGED db_vars
    /\ UNCHANGED <<input_vars, select_vars, map_vars, call_vars>>

-----------------------------------------------------------------------------
(* Database operations called directly *)

\* isinstance(data, pd.DataFrame)
isinstance_DataFrame(data) == "columns" \in DOMAIN data

\* the config keys of the table names of update_training_table,
\* update_ideal_functions_table, update_result_table and of the three
\* read_*_table operations
TableKeys == {"trainingDataTable", "idealFunctionsTable", "resultsTable"}

\* update_training_table, update_ideal_functions_table or
\* update_result_table up to the call of _save: _update_table raises
\* TypeError for data that is no DataFrame, then _connect opens a connection
\* or raises SQLAlchemyError
UpdateTableCall(datas, limit) ==
    /\ pc = "database"
    /\ ops < limit
    /\ ops' = ops + 1
    /\ \E key \in TableKeys, data \in datas :
           IF ~isinstance_DataFrame(data)
           THEN /\ ret' = Raise("TypeError")
                /\ UNCHANGED <<pc, connections, call>>
           ELSE \/ /\ ret' = Raise("SQLAlchemyError")
                   /\ UNCHANGED <<pc, connections, call>>
                \/ /\ connections' = connections + 1
                   /\ call' = [name |-> cfg[key], data |-> data]
                   /\ pc' = "_save"
                   /\ ret' = Return(None)
    /\ UNCHANGED <<cfg, arg_key, train_file, ideal_file, test_x_column, engine,
                   tables, grid, arg_training, arg_ideal, raised>>
    /\ UNCHANGED <<input_vars, select_vars, map_vars>>

\* Database._save: to_sql replaces the table or raises, and the connection
\* is closed in the finally clause
Save ==
    /\ pc = "_save"
    /\ \/ /\ tables' = to_sql(tables, call.name, call.data)
          /\ ret' = Return(None)
       \/ /\ ret' = Raise("ValueError")
          /\ UNCHANGED tables
    /\ connections' = connections - 1
    /\ call' = None
    /\ pc' = "database"
    /\ UNCHANGED <<cfg, arg_key, train_file, ideal_file, test_x_column, engine,
                   grid, ops, arg_training, arg_ideal, raised>>
    /\ UNCHANGED <<input_vars, select_vars, map_vars>>

\* read_training_table, read_ideal_functions_table or read_results_table up
\* to the call of pd.read_sql_table: _connect opens a connection or raises
\* SQLAlchemyError
ReadTableCall(limit) ==
    /\ pc = "database"
    /\ ops < limit
    /\ ops' = ops + 1
    /\ \E key \in TableKeys :
           \/ /\ ret' = Raise("SQLAlchemyError")
              /\ UNCHANGED <<pc, connections, call>>
           \/ /\ connections' = connections + 1
              /\ call' = [name |-> cfg[key], data |-> None]
              /\ pc' = "_read_table"
              /\ ret' = Return(None)
    /\ UNCHANGED <<cfg, arg_key, train_file, ideal_file, test_x_column, engine,
                   tables, grid, arg_training, arg_ideal, raised>>
    /\ UNCHANGED <<input_vars, select_vars, map_vars>>

\* Database._read_table, line 154: read_sql_table returns the table or
\* raises ValueError for a table that does not exist, and _read_table
\* returns without closing conn; the connection stays open unless the
\* garbage collector reclaims the unreferenced object
ReadSqlTable ==
    /\ pc = "_read_table"
    /\ ret' = IF call.name \in DOMAIN tables
              THEN Return(tables[call.name])
              ELSE Raise("ValueError")
    /\ connections' \in {connections, connections - 1}
    /\ call' = None
    /\ pc' = "database"
    /\ UNCHANGED <<cfg, arg_key, train_file, ideal_file, test_x_column, engine,
                   tables, grid, ops, arg_training, arg_ideal, raised>>
    /\ UNCHANGED <<input_vars, select_vars, map_vars>>

\* a direct call of read_string_from_config
CallReadString ==
    /\ pc = "read_string_from_config"
    /\ ret' = read_string_from_config(cfg, arg_key)
    /\ pc' = "returned"
    /\ UNCHANGED <<arg_training, arg_ideal, raised>>
    /\ UNCHANGED <<input_vars, select_vars, map_vars, main_vars>>

-----------------------------------------------------------------------------
(* Inputs *)

Values == 0..MaxVal

\* the frames with the given index and column names and values in 0..top
Frames(index, names, top) ==
    {DataFrame(index, [k \in DOMAIN names |-> Column(names[k], data[k])]) :
        data \in [DOMAIN names -> [DOMAIN index -> 0..top]]}

\* the sequences over S of at most n elements
SeqUpTo(S, n) == UNION {[1..k -> S] : k \in 0..n}

\* test points: x in the index of the ideal functions or beside it, y in
\* 0..top written with a decimal point (read as float64)
TestPoints(index, top) ==
    [x : {index[k] : k \in DOMAIN index} \cup {Len(index) + 1}, y : 0..top,
     dtype : {"float64"}]

\* test points whose y is written without a decimal point (read as int64)
IntegerPoints(index, top) ==
    [x : {index[k] : k \in DOMAIN index}, y : 0..top, dtype : {"int64"}]

NoFrame == DataFrame(<<>>, <<>>)

\* the locals of find_ideal_functions before it runs
SelectUnset ==
    /\ t_pos = 0
    /\ i_pos = 0
    /\ min_dev_sum = -1
    /\ min_dev = Unbound
    /\ min_name = ""
    /\ result_frames = <<>>
    /\ deviations = <<>>
    /\ saved_deviations = <<>>

\* the locals of map_to_functions before it runs
MapUnset ==
    /\ test_file = <<>>
    /\ x = 0
    /\ y = 0
    /\ matched = FALSE
    /\ c_pos = 0
    /\ result_df = <<>>
    /\ test_result = <<>>

CallUnset ==
    /\ arg_training = None
    /\ arg_ideal = None
    /\ ret = Return(None)

NoFile == CsvFile(TRUE, NoFrame)

NoTables == [n \in {} |-> None]

\* no Database operation called directly
DbUnset ==
    /\ connections = 0
    /\ ops = 0
    /\ call = None

\* the state of main's objects when a method is run without main
MainUnset ==
    /\ cfg = [k \in {} |-> ""]
    /\ arg_key = ""
    /\ train_file = NoFile
    /\ ideal_file = NoFile
    /\ test_x_column = TRUE
    /\ engine = FALSE
    /\ tables = NoTables
    /\ grid = <<>>
    /\ DbUnset

-----------------------------------------------------------------------------
(* main: selection, then mapping, over one-point series *)

MainIndex == <<1>>
MainTraining == <<"y1", "y2">>
MainIdeal == <<"y1", "y2">>

Init ==
    /\ training_data \in Frames(MainIndex, MainTraining, MaxMainVal)
    /\ ideal_functions \in Frames(MainIndex, MainIdeal, MaxMainVal)
    /\ pc = "find_ideal_functions"
    /\ training_result = <<>>
    /\ raised = ""
    /\ SelectUnset /\ MapUnset /\ CallUnset /\ MainUnset

Next ==
    \/ EnterFind
    \/ NextTraining
    \/ ScanIdeal
    \/ SaveIdeal
    \/ ReturnFind
    \/ EnterMap
    \/ ReadRow(TestPoints(MainIndex, MaxMainVal), MaxTest)
    \/ MapColumn
    \/ EndRow
    \/ ReturnMap

Spec == Init /\ [][Next]_vars

-----------------------------------------------------------------------------
(* main from its first line: the configuration, the database, the csv      *)
(* files, selection, mapping, the results table, the plots                 *)

\* config/data.json with every key main and Database read
FullConfig ==
    [dataDir |-> "data", trainFile |-> "train.csv", idealFile |-> "ideal.csv",
     testFile |-> "test.csv", dbName |-> "pymatcher",
     trainingDataTable |-> "training", idealFunctionsTable |-> "ideal",
     resultsTable |-> "results"]

\* a config without the key
Without(config, key) == [k \in DOMAIN config \ {key} |-> config[k]]

\* a config with an empty value for the key
Emptied(config, key) == [config EXCEPT ![key] = ""]

\* the full config and the configs with one key missing or empty
MainConfigs ==
    {FullConfig}
        \cup {Without(FullConfig, k) : k \in DOMAIN FullConfig}
        \cup {Emptied(FullConfig, k) : k \in DOMAIN FullConfig}

\* an ideal file with more rows than the training file
LongIndex == <<1, 2>>
LongIdeal == <<"y1">>

TrainFiles ==
    {CsvFile(TRUE, f) : f \in Frames(MainIndex, MainTraining, MaxMainVal)}
        \cup {CsvFile(FALSE, NoFrame)}

IdealFiles ==
    {CsvFile(TRUE, f) : f \in Frames(MainIndex, MainIdeal, MaxMainVal)
                              \cup Frames(LongIndex, LongIdeal, MaxMainVal)}
        \cup {CsvFile(FALSE, NoFrame)}

\* the rows a test file can hold: y with or without a decimal point
MainPoints ==
    TestPoints(MainIndex, MaxMainVal) \cup IntegerPoints(MainIndex, MaxMainVal)

MainInit ==
    /\ cfg \in MainConfigs
    /\ arg_key = ""
    /\ train_file \in TrainFiles
    /\ ideal_file \in IdealFiles
    /\ test_x_column \in BOOLEAN
    /\ engine = FALSE
    /\ tables = NoTables
    /\ grid = <<>>
    /\ DbUnset
    /\ training_data = NoFrame
    /\ ideal_functions = NoFrame
    /\ pc = "main"
    /\ training_result = <<>>
    /\ raised = ""
    /\ SelectUnset /\ MapUnset /\ CallUnset

MainNext ==
    \/ ReadConfig
    \/ Database_init
    \/ ReadData
    \/ UpdateTables
    \/ EnterFind
    \/ NextTraining
    \/ ScanIdeal
    \/ SaveIdeal
    \/ ReturnFind
    \/ EnterMap
    \/ ReadRow(MainPoints, MaxTest)
    \/ MapColumn
    \/ EndRow
    \/ ReturnMap
    \/ UpdateResultTable
    \/ PlotResults

MainSpec == MainInit /\ [][MainNext]_vars

-----------------------------------------------------------------------------
(* read_string_from_config and Database.__init__ alone *)

\* the keys of a direct read_string_from_config call
CallKeys ==
    {DatabaseKeys[k] : k \in DOMAIN DatabaseKeys} \cup {"not_found"}

\* the configs with any of the Database keys missing, empty or set
DatabaseConfigs ==
    UNION {[keys -> {"", "pymatcher"}] :
               keys \in SUBSET {DatabaseKeys[k] : k \in DOMAIN DatabaseKeys}}

ConfigInit ==
    /\ cfg \in DatabaseConfigs
    /\ \/ pc = "read_string_from_config" /\ arg_key \in CallKeys
       \/ pc = "Database" /\ arg_key = ""
    /\ train_file = NoFile
    /\ ideal_file = NoFile
    /\ test_x_column = TRUE
    /\ engine = FALSE
    /\ tables = NoTables
    /\ grid = <<>>
    /\ DbUnset
    /\ training_data = NoFrame
    /\ ideal_functions = NoFrame
    /\ training_result = <<>>
    /\ raised = ""
    /\ SelectUnset /\ MapUnset /\ CallUnset

ConfigNext ==
    \/ CallReadString
    \/ Database_init

ConfigSpec == ConfigInit /\ [][ConfigNext]_vars

-----------------------------------------------------------------------------
(* Database operations alone, on a Database built from the full config *)

\* what the update operations are called with: small frames, and the number
\* 0.5 of test_update_table_wrong_type
DatabaseData == Frames(<<1>>, <<"y1">>, MaxVal) \cup {float(1)}

DatabaseInit ==
    /\ cfg = FullConfig
    /\ arg_key = ""
    /\ train_file = NoFile
    /\ ideal_file = NoFile
    /\ test_x_column = TRUE
    /\ engine = TRUE
    /\ tables = NoTables
    /\ grid = <<>>
    /\ DbUnset
    /\ training_data = NoFrame
    /\ ideal_functions = NoFrame
    /\ training_result = <<>>
    /\ pc = "database"
    /\ raised = ""
    /\ SelectUnset /\ MapUnset /\ CallUnset

DatabaseNext ==
    \/ UpdateTableCall(DatabaseData, MaxOps)
    \/ Save
    \/ ReadTableCall(MaxOps)
    \/ ReadSqlTable

DatabaseSpec == DatabaseInit /\ [][DatabaseNext]_vars

-----------------------------------------------------------------------------
(* find_ideal_functions alone, over two-point series *)

SelectIndex == <<1, 2>>
SelectTraining == <<"y1", "y2">>
SelectIdeal == <<"y1", "y2", "y3">>

SelectInit ==
    /\ training_data \in Frames(SelectIndex, SelectTraining, MaxVal)
    /\ ideal_functions \in Frames(SelectIndex, SelectIdeal, MaxVal)
    /\ pc = "find_ideal_functions"
    /\ training_result = <<>>
    /\ raised = ""
    /\ SelectUnset /\ MapUnset /\ CallUnset /\ MainUnset

SelectNext ==
    \/ EnterFind
    \/ NextTraining
    \/ ScanIdeal
    \/ SaveIdeal
    \/ ReturnFind

SelectSpec == SelectInit /\ [][SelectNext]_vars

-----------------------------------------------------------------------------
(* find_ideal_functions alone, over an ideal file whose x column need not  *)
(* be the x column of the training file                                    *)

AlignIndex == <<1, 2>>
AlignTraining == <<"y1">>
AlignIdeal == <<"y1", "y2">>

\* the x columns of the ideal file: that of the training file, the same rows
\* in another order, other x values, one row more
AlignIdealIndexes == {<<1, 2>>, <<2, 1>>, <<1, 3>>, <<1, 2, 3>>}

AlignInit ==
    /\ training_data \in Frames(AlignIndex, AlignTraining, MaxVal)
    /\ ideal_functions \in UNION {Frames(index, AlignIdeal, MaxVal) :
                                      index \in AlignIdealIndexes}
    /\ pc = "find_ideal_functions"
    /\ training_result = <<>>
    /\ raised = ""
    /\ SelectUnset /\ MapUnset /\ CallUnset /\ MainUnset

AlignNext ==
    \/ EnterFind
    \/ NextTraining
    \/ ScanIdeal
    \/ SaveIdeal
    \/ ReturnFind

AlignSpec == AlignInit /\ [][AlignNext]_vars

-----------------------------------------------------------------------------
(* map_to_functions alone: a test file of at most one row against a given  *)
(* result_data                                                             *)

MapIndex == <<1, 2>>
MapTraining == <<"y1", "y2">>
MapIdeal == <<"y1", "y2">>

\* the result tables find_ideal_functions can return for MapTraining
ResultTables ==
    {[k \in DOMAIN MapTraining |-> ResultFrame(MapTraining[k], m[k] * m[k], n[k])] :
        m \in [DOMAIN MapTraining -> 0..MaxDev],
        n \in [DOMAIN MapTraining -> {MapIdeal[j] : j \in DOMAIN MapIdeal}]}

MapPoints == TestPoints(MapIndex, MaxVal + 1)

MapInit ==
    /\ training_data = NoFrame
    /\ ideal_functions \in Frames(MapIndex, MapIdeal, MaxVal)
    /\ training_result \in ResultTables
    /\ pc = "selected"
    /\ raised = ""
    /\ SelectUnset /\ MapUnset /\ CallUnset /\ MainUnset

MapNext ==
    \/ EnterMap
    \/ ReadRow(MapPoints, 1)
    \/ MapColumn
    \/ EndRow
    \/ ReturnMap

MapSpec == MapInit /\ [][MapNext]_vars

-----------------------------------------------------------------------------
(* _squared_error alone *)

Operands ==
    {ndarray(s) : s \in SeqUpTo(Values, MaxLen)}
        \cup {float64(v) : v \in Values}
        \cup {int64(v) : v \in Values}
        \cup {float(v) : v \in Values}

SquaredErrorInit ==
    /\ training_data = NoFrame
    /\ ideal_functions = NoFrame
    /\ training_result = <<>>
    /\ pc = "_squared_error"
    /\ raised = ""
    /\ arg_training \in Operands
    /\ arg_ideal \in Operands
    /\ ret = Return(None)
    /\ SelectUnset /\ MapUnset /\ MainUnset

SquaredErrorNext == CallSquaredError

SquaredErrorSpec == SquaredErrorInit /\ [][SquaredErrorNext]_vars

-----------------------------------------------------------------------------
(* Properties of the selection *)

\* the pointwise squared deviations of two series of values
SqDev(t, r) == [k \in DOMAIN t |-> (t[k] - r[k]) * (t[k] - r[k])]

\* the training column a Selection Record is about
TrainingOf(record) ==
    training_data.columns[ColumnPos(training_data, record.name)].data

\* the i-th reference series
IdealData(i) == ideal_functions.columns[i].data

\* the position of the reference series a Selection Record names
WinnerPos(record) == ColumnPos(ideal_functions, record.ideal_function)

\* the sum of squared deviations of a record's training series against the
\* i-th reference series
DevSum(record, i) == SumSeq(SqDev(TrainingOf(record), IdealData(i)))

IdealPositions == DOMAIN ideal_functions.columns

\* C1: the reference series named in a returned Selection Record has a sum of
\* squared deviations against its training series that no reference series
\* of the library undercuts.
C1_WinnerIsMinimal ==
    \A k \in DOMAIN training_result :
        /\ WinnerPos(training_result[k]) \in IdealPositions
        /\ \A i \in IdealPositions :
               DevSum(training_result[k], WinnerPos(training_result[k]))
                   <= DevSum(training_result[k], i)

\* C1 witness: selection has returned and the winner of some training series
\* is the last reference series, which strictly undercuts the second, which
\* strictly undercuts the first.
C1_Witness ==
    /\ pc = "selected"
    /\ \E k \in DOMAIN training_result :
           /\ WinnerPos(training_result[k]) = 3
           /\ DevSum(training_result[k], 3) < DevSum(training_result[k], 2)
           /\ DevSum(training_result[k], 2) < DevSum(training_result[k], 1)

\* C2: among the reference series that achieve the minimal sum the earliest in
\* column order is selected, and two training series with the same samples
\* get the same winner.
C2_FirstMinimumWins ==
    \A k \in DOMAIN training_result :
        /\ \A i \in IdealPositions :
               i < WinnerPos(training_result[k]) =>
                   DevSum(training_result[k], i)
                       > DevSum(training_result[k], WinnerPos(training_result[k]))
        /\ \A l \in DOMAIN training_result :
               TrainingOf(training_result[k]) = TrainingOf(training_result[l]) =>
                   training_result[k].ideal_function
                       = training_result[l].ideal_function

\* C2 witness: selection has returned, two reference series tie at the minimum
\* of some training series and differ in their samples, and the earlier one
\* is its winner.
C2_Witness ==
    /\ pc = "selected"
    /\ \E k \in DOMAIN training_result : \E i \in IdealPositions :
           /\ i > WinnerPos(training_result[k])
           /\ IdealData(i) # IdealData(WinnerPos(training_result[k]))
           /\ DevSum(training_result[k], i)
                  = DevSum(training_result[k], WinnerPos(training_result[k]))

\* the largest element of a non-empty sequence of numbers
Largest(s) == CHOOSE m \in {s[k] : k \in DOMAIN s} : \A k \in DOMAIN s : s[k] <= m

\* C3: once selection has returned, the retained deviation trace of every
\* training series is the pointwise squared deviation against the reference
\* series named as its winner, and the recorded maximum_deviation is the
\* largest element of that trace.
C3_TraceAndToleranceOfWinner ==
    pc = "selected" =>
        /\ Len(saved_deviations) = Len(training_result)
        /\ \A k \in DOMAIN training_result :
               /\ saved_deviations[k].name = training_result[k].name
               /\ saved_deviations[k].data
                      = SqDev(TrainingOf(training_result[k]),
                              IdealData(WinnerPos(training_result[k])))
               /\ training_result[k].maximum_deviation
                      = Largest(saved_deviations[k].data)

\* C3 witness: selection has returned, the trace of some training series has a
\* maximum above its smallest element, and a reference series scanned after the
\* winner has another trace.
C3_Witness ==
    /\ pc = "selected"
    /\ \E k \in DOMAIN training_result : \E i \in IdealPositions :
           /\ i > WinnerPos(training_result[k])
           /\ SqDev(TrainingOf(training_result[k]), IdealData(i))
                  # saved_deviations[k].data
           /\ \E p \in DOMAIN saved_deviations[k].data :
                  saved_deviations[k].data[p]
                      < training_result[k].maximum_deviation

\* C4: a training series equal at every sample to a reference series, with no
\* earlier reference series equal to it, gets that reference series as winner
\* with maximum_deviation 0.
C4_PerfectMatch ==
    pc = "selected" =>
        \A k \in DOMAIN training_result : \A i \in IdealPositions :
            ( /\ IdealData(i) = TrainingOf(training_result[k])
              /\ \A j \in 1..(i - 1) : IdealData(j) # TrainingOf(training_result[k]) )
            => /\ training_result[k].ideal_function
                      = ideal_functions.columns[i].name
               /\ training_result[k].maximum_deviation = 0

\* C4 witness: selection has returned and some training series equals the
\* second reference series and a later one, but not the first.
C4_Witness ==
    /\ pc = "selected"
    /\ \E k \in DOMAIN training_result :
           /\ IdealData(2) = TrainingOf(training_result[k])
           /\ IdealData(3) = TrainingOf(training_result[k])
           /\ IdealData(1) # TrainingOf(training_result[k])
           /\ training_result[k].ideal_function = ideal_functions.columns[2].name

-----------------------------------------------------------------------------
(* Properties of the mapping *)

\* whether x is a coordinate of the reference library
InIndex(px) == \E k \in DOMAIN ideal_functions.index : ideal_functions.index[k] = px

\* the value at x of the reference series a Selection Record names
RefValue(record, px) ==
    IdealData(WinnerPos(record))[CHOOSE k \in DOMAIN ideal_functions.index :
                                     ideal_functions.index[k] = px]

\* |a - b|
AbsDiff(a, b) == IF a >= b THEN a - b ELSE b - a

\* the squared deviation d of a test point from a record's reference series
PointDev(record, p) == AbsDiff(p.y, RefValue(record, p.x)) * AbsDiff(p.y, RefValue(record, p.x))

\* d*sqrt(2) <= M, for d, M >= 0
Within(d, m) == 2 * d * d <= m * m

\* whether a Selection Record accepts a test point
Accepts(record, p) == Within(PointDev(record, p), record.maximum_deviation)

\* the reference names of the records among the first n that accept p, in
\* record order
RECURSIVE AcceptedNames(_, _)
AcceptedNames(p, n) ==
    IF n = 0 THEN <<>>
    ELSE IF Accepts(training_result[n], p)
         THEN Append(AcceptedNames(p, n - 1), training_result[n].ideal_function)
         ELSE AcceptedNames(p, n - 1)

\* the reference names of the matched rows of a table, in row order
MatchedNames(df) ==
    LET named == SelectSeq(df, LAMBDA row : row.No_of_ideal_func # "")
    IN  [j \in DOMAIN named |-> named[j].No_of_ideal_func]

\* C5: a matched row is emitted for a test point and a Selection Record with
\* tolerance basis M exactly when d*sqrt(2) <= M, d the squared deviation of
\* the point from the record's reference series; d = 0 with M = 0 is accepted.
C5_AcceptanceBoundary ==
    /\ pc = "column_loop" =>
           MatchedNames(result_df) = AcceptedNames(test_file[1], c_pos)
    /\ (pc = "mapped" /\ test_file # <<>>) =>
           MatchedNames(test_result)
               = AcceptedNames(test_file[1], Len(training_result))

\* C5 witness: mapping has returned; the first record accepted the point on
\* the boundary d = 0, M = 0 and the second rejected it with d = 1, M = 1.
C5_Witness ==
    /\ pc = "mapped"
    /\ test_file # <<>>
    /\ training_result[1].maximum_deviation = 0
    /\ PointDev(training_result[1], test_file[1]) = 0
    /\ training_result[2].maximum_deviation = 1
    /\ PointDev(training_result[2], test_file[1]) = 1
    /\ MatchedNames(test_result) = <<training_result[1].ideal_function>>

\* C9: every matched row carries the x and y of its test point, the winning
\* reference of some Selection Record, and as deviation the magnitude
\* |y - reference value at x|, whose square is within that record's tolerance.
C9_MatchedRowContent ==
    \A j \in DOMAIN result_df :
        result_df[j].No_of_ideal_func # "" =>
            /\ result_df[j].X = test_file[1].x
            /\ result_df[j].Y = test_file[1].y
            /\ InIndex(test_file[1].x)
            /\ \E k \in DOMAIN training_result :
                   /\ result_df[j].No_of_ideal_func = training_result[k].ideal_function
                   /\ result_df[j].Delta_Y
                          = float(AbsDiff(test_file[1].y,
                                          RefValue(training_result[k], test_file[1].x)))
                   /\ Within(result_df[j].Delta_Y.val * result_df[j].Delta_Y.val,
                             training_result[k].maximum_deviation)

\* C9 witness: a matched row with deviation magnitude 2 for a point at the
\* second coordinate, where the reference series has another value than at
\* the first.
C9_Witness ==
    \E j \in DOMAIN result_df :
        /\ result_df[j].No_of_ideal_func # ""
        /\ result_df[j].Delta_Y = float(2)
        /\ result_df[j].X = 2
        /\ \E k \in DOMAIN training_result :
               /\ training_result[k].ideal_function = result_df[j].No_of_ideal_func
               /\ RefValue(training_result[k], 1) # RefValue(training_result[k], 2)

-----------------------------------------------------------------------------
(* Properties of the result table of a whole test file *)

Records == DOMAIN training_result

\* the number of Selection Records that accept a test point
AcceptCount(p) == Cardinality({k \in Records : Accepts(training_result[k], p)})

\* the number of rows a test point contributes
RowCount(p) == IF AcceptCount(p) = 0 THEN 1 ELSE AcceptCount(p)

\* the number of rows the first n test points contribute
RECURSIVE RowsBefore(_)
RowsBefore(n) == IF n = 0 THEN 0 ELSE RowsBefore(n - 1) + RowCount(test_file[n])

\* the rows of a table the n-th test point contributed
RowsOf(df, n) == SubSeq(df, RowsBefore(n - 1) + 1, RowsBefore(n))

\* C6: when map_to_functions has completed, every test point has contributed
\* rows: a point accepted by k >= 1 Selection Records exactly k matched rows
\* and no unmatched row, a point accepted by none exactly one row with empty
\* deviation and name.
C6_EveryPointHasRows ==
    pc = "mapped" =>
        /\ Len(test_result) = RowsBefore(Len(test_file))
        /\ \A n \in DOMAIN test_file :
               LET p == test_file[n]
                   rows == RowsOf(test_result, n)
               IN  /\ Len(rows) >= 1
                   /\ \A j \in DOMAIN rows : rows[j].X = p.x /\ rows[j].Y = p.y
                   /\ IF AcceptCount(p) = 0
                      THEN /\ Len(rows) = 1
                           /\ rows[1].Delta_Y = str("")
                           /\ rows[1].No_of_ideal_func = ""
                      ELSE /\ Len(rows) = AcceptCount(p)
                           /\ \A j \in DOMAIN rows :
                                  /\ rows[j].No_of_ideal_func # ""
                                  /\ rows[j].Delta_Y.type = "float"

\* C6 witness: mapping has completed on a file of two points, the first
\* accepted by two Selection Records and the second by none.
C6_Witness ==
    /\ pc = "mapped"
    /\ Len(test_file) = 2
    /\ AcceptCount(test_file[1]) = 2
    /\ AcceptCount(test_file[2]) = 0
    /\ Len(test_result) = 3

\* C7 (as claimed): no two rows of one test point carry the same matched
\* reference name.
C7_OneRowPerReference ==
    pc = "mapped" =>
        \A n \in DOMAIN test_file :
            LET rows == RowsOf(test_result, n)
            IN  \A i, j \in DOMAIN rows :
                    ( /\ i # j
                      /\ rows[i].No_of_ideal_func # "" )
                    => rows[i].No_of_ideal_func # rows[j].No_of_ideal_func

\* the training column names of the records, in record order
RecordNames == [k \in Records |-> training_result[k].name]

\* what a row tells of its point and its match
Match(row) == <<row.X, row.Y, row.No_of_ideal_func>>

\* the matches a test point is to contribute, in Selection Record order
ExpectedMatches(p) ==
    LET names == AcceptedNames(p, Len(training_result))
    IN  IF names = <<>> THEN << <<p.x, p.y, "">> >>
        ELSE [j \in DOMAIN names |-> <<p.x, p.y, names[j]>>]

\* the matches the first n test points are to contribute, in arrival order
RECURSIVE ExpectedUpTo(_)
ExpectedUpTo(n) ==
    IF n = 0 THEN <<>>
    ELSE ExpectedUpTo(n - 1) \o ExpectedMatches(test_file[n])

\* C8: the Selection Records are returned in the order the training series are
\* defined, and the rows are returned in test-point arrival order, the rows of
\* one test point in Selection Record order.
C8_OrderPreserved ==
    /\ pc \in {"selected", "row_loop", "column_loop", "mapped"} =>
           RecordNames = column_names(training_data)
    /\ pc = "row_loop" =>
           [j \in DOMAIN result_df |-> Match(result_df[j])]
               = ExpectedUpTo(Len(test_file))
    /\ pc = "mapped" =>
           [j \in DOMAIN test_result |-> Match(test_result[j])]
               = ExpectedUpTo(Len(test_file))

\* C8 witness: mapping has completed on two different test points; the first
\* contributed two rows, for two different reference series.
C8_Witness ==
    /\ pc = "mapped"
    /\ Len(test_file) = 2
    /\ test_file[1] # test_file[2]
    /\ AcceptCount(test_file[1]) = 2
    /\ training_result[1].ideal_function # training_result[2].ideal_function
    /\ test_result[1].No_of_ideal_func = training_result[1].ideal_function
    /\ test_result[2].No_of_ideal_func = training_result[2].ideal_function
    /\ test_result[3].X = test_file[2].x

-----------------------------------------------------------------------------
(* Properties of _squared_error *)

\* C10: for two arrays of equal length _squared_error returns an array of that
\* length whose i-th element is (a[i] - b[i])^2; for two arrays of unequal
\* length it raises IndexCountDoesNotMatchException and returns nothing.
C10_ArraySquaredError ==
    ( /\ pc = "returned"
      /\ arg_training.type = "ndarray"
      /\ arg_ideal.type = "ndarray" )
    => IF Len(arg_training.val) = Len(arg_ideal.val)
       THEN /\ ret.exc = ""
            /\ ret.value.type = "ndarray"
            /\ Len(ret.value.val) = Len(arg_training.val)
            /\ \A i \in 1..Len(arg_training.val) :
                   ret.value.val[i]
                       = (arg_training.val[i] - arg_ideal.val[i])
                             * (arg_training.val[i] - arg_ideal.val[i])
       ELSE /\ ret.exc = "IndexCountDoesNotMatchException"
            /\ ret.value = None

\* C10 witness: the call has returned for two arrays of MaxLen elements, one
\* element of the first below and one above its partner.
C10_Witness ==
    /\ pc = "returned"
    /\ arg_training.type = "ndarray"
    /\ arg_ideal.type = "ndarray"
    /\ Len(arg_training.val) = MaxLen
    /\ Len(arg_ideal.val) = MaxLen
    /\ \E i \in 1..MaxLen : arg_training.val[i] < arg_ideal.val[i]
    /\ \E i \in 1..MaxLen : arg_training.val[i] > arg_ideal.val[i]
    /\ ret.exc = ""

\* C11: for two float64 scalars _squared_error returns (x - y)^2; for one
\* scalar and one array, in either argument order, it raises
\* TypesDoNotMatchException; for two operands of an unsupported type (two
\* integers) it raises TypeError.
C11_ScalarSquaredError ==
    pc = "returned" =>
        /\ ( arg_training.type = "float64" /\ arg_ideal.type = "float64" )
           => /\ ret.exc = ""
              /\ ret.value.type \in {"float", "float64"}
              /\ ret.value.val = (arg_training.val - arg_ideal.val)
                                     * (arg_training.val - arg_ideal.val)
        /\ ( \/ arg_training.type = "ndarray" /\ arg_ideal.type # "ndarray"
             \/ arg_training.type # "ndarray" /\ arg_ideal.type = "ndarray" )
           => ret = Raise("TypesDoNotMatchException")
        /\ ( arg_training.type = "int64" /\ arg_ideal.type = "int64" )
           => ret = Raise("TypeError")

\* C11 witness: the call has returned the square for two float64 scalars, the
\* first below the second.
C11_Witness ==
    /\ pc = "returned"
    /\ arg_training.type = "float64"
    /\ arg_ideal.type = "float64"
    /\ arg_training.val < arg_ideal.val
    /\ ret.exc = ""
    /\ ret.value.val > 0

-----------------------------------------------------------------------------
(* Properties of failing runs *)

\* C12: a test point whose x is absent from the index of the ideal functions
\* ends map_to_functions with a lookup error (KeyError) at the first result
\* column: the point is the last one read, no row is ever written for it,
\* neither a matched nor an unmatched one, and no table is returned.
C12_AbsentXRaisesLookupError ==
    \A n \in DOMAIN test_file :
        ~InIndex(test_file[n].x) =>
            /\ n = Len(test_file)
            /\ \/ pc = "column_loop" /\ c_pos = 0 /\ ~matched
               \/ pc = "raised" /\ raised = "KeyError"
            /\ \A k \in DOMAIN result_df : result_df[k].X # test_file[n].x
            /\ Len(result_df) = RowsBefore(n - 1)
            /\ test_result = <<>>

\* C12 witness: the second point of the file has an absent x, the first point
\* had been matched, and the run has ended with KeyError.
C12_Witness ==
    /\ pc = "raised"
    /\ raised = "KeyError"
    /\ Len(test_file) = 2
    /\ InIndex(test_file[1].x)
    /\ ~InIndex(test_file[2].x)
    /\ Len(result_df) > 0
    /\ result_df[1].No_of_ideal_func # ""

\* C13: no partial output on failure.  When an exception ends
\* find_ideal_functions, no table of Selection Records is returned and no
\* deviations are kept in TrainingData._deviations; when an exception ends
\* map_to_functions, no mapping table is returned, whatever rows result_df
\* held; in both cases the results table is not written, and a run that has
\* ended with an exception takes no further step.
C13_NoPartialOutput ==
    [][ /\ ( pc \in {"training_loop", "ideal_loop"} /\ pc' = "raised" )
           => /\ training_result' = <<>>
              /\ saved_deviations' = <<>>
              /\ cfg["resultsTable"] \notin DOMAIN tables'
        /\ ( pc \in {"row_loop", "column_loop"} /\ pc' = "raised" )
           => /\ test_result' = <<>>
              /\ cfg["resultsTable"] \notin DOMAIN tables'
        /\ pc # "raised" ]_vars

\* C13 witness: map_to_functions has ended with a type error at the second
\* point of the file after a row had been written for the first.
C13_Witness ==
    /\ pc = "raised"
    /\ raised = "TypesDoNotMatchException"
    /\ Len(test_file) = 2
    /\ Len(result_df) > 0
    /\ test_result = <<>>
    /\ cfg["resultsTable"] \notin DOMAIN tables

-----------------------------------------------------------------------------
(* Properties of main *)

\* a schema error of the run: a key missing from the config or empty in it,
\* or a csv file without a column x
ConfigFault == \E k \in DOMAIN FullConfig : k \notin DOMAIN cfg \/ cfg[k] = ""

SchemaFault ==
    \/ ConfigFault
    \/ ~train_file.x_column
    \/ ~ideal_file.x_column
    \/ ~test_x_column

\* the run was ended by a schema error: by the read of a config key, by
\* read_data, or by row['x'] before any row was taken
AbortedBySchemaError ==
    /\ pc = "raised"
    /\ SchemaFault
    /\ test_file = <<>>
    /\ FullConfig.resultsTable \notin DOMAIN tables
    /\ raised \in {"KeyError", "ValueError", "EmptyKeyValueException"}

\* C14: a run that a schema error has ended has not started any selection or
\* classification computation: no training series was taken, no deviation
\* computed, no Selection Record made.
C14_SchemaErrorsAbortBeforeComputation ==
    AbortedBySchemaError =>
        /\ t_pos = 0
        /\ min_dev = Unbound
        /\ result_frames = <<>>
        /\ training_result = <<>>
        /\ saved_deviations = <<>>

\* the positions of main inside find_ideal_functions
SelectingAt == {"find_ideal_functions", "training_loop", "ideal_loop"}

\* the positions of main from the start of map_to_functions on
MappingAt == {"row_loop", "column_loop", "mapped", "saved", "shown"}

\* C15: the steps of main occur in strict sequence.  Selection runs only
\* with the training and ideal tables persisted; mapping runs, and a test
\* point is read, only with a Selection Record for every training series,
\* which are the records selection returned; the results table is written
\* only with the table mapping returned, and plots are shown only with the
\* results table written.
C15_StrictSequence ==
    /\ ( pc \in SelectingAt \/ t_pos > 0 )
       => /\ cfg["trainingDataTable"] \in DOMAIN tables
          /\ cfg["idealFunctionsTable"] \in DOMAIN tables
          /\ tables[cfg["trainingDataTable"]] = training_data
          /\ tables[cfg["idealFunctionsTable"]] = ideal_functions
    /\ pc \in SelectingAt
       => /\ test_file = <<>>
          /\ result_df = <<>>
          /\ cfg["resultsTable"] \notin DOMAIN tables
    /\ ( pc \in MappingAt \/ test_file # <<>> )
       => /\ t_pos = Len(training_data.columns)
          /\ Len(training_result) = Len(training_data.columns)
          /\ training_result = result_frames
    /\ pc \in {"row_loop", "column_loop"}
       => /\ test_result = <<>>
          /\ cfg["resultsTable"] \notin DOMAIN tables
    /\ ( engine /\ cfg["resultsTable"] \in DOMAIN tables )
       => /\ test_result = result_df
          /\ tables[cfg["resultsTable"]] = test_result
    /\ ( pc = "shown" \/ grid # <<>> )
       => cfg["resultsTable"] \in DOMAIN tables

\* C15 witness: the results table has been written with the rows of a file
\* of two points, after selection and mapping.
C15_Witness ==
    /\ pc = "saved"
    /\ Len(test_file) = 2
    /\ Len(training_result) = 2
    /\ tables[cfg["resultsTable"]] = test_result
    /\ Len(test_result) >= 2
    /\ tables[cfg["trainingDataTable"]] = training_data

-----------------------------------------------------------------------------
(* Properties of the alignment of training and ideal series *)

\* the x values of a frame
XSet(df) == {df.index[k] : k \in DOMAIN df.index}

\* the ideal file has the x values of the training file, each once
SameXSet ==
    /\ XSet(ideal_functions) = XSet(training_data)
    /\ Len(ideal_functions.index) = Len(training_data.index)

\* the value of the i-th reference series at x
IdealAt(i, px) ==
    IdealData(i)[CHOOSE k \in DOMAIN ideal_functions.index :
                     ideal_functions.index[k] = px]

\* the squared deviations of a training series against the i-th reference
\* series, each training sample paired with the reference sample of its x
AlignedDev(t, i) ==
    [k \in DOMAIN t |-> (t[k] - IdealAt(i, training_data.index[k]))
                            * (t[k] - IdealAt(i, training_data.index[k]))]

\* C16: the selector pairs samples by x, so that the row order of the ideal
\* file changes nothing: for an ideal file with the x values of the training
\* file in any row order, the retained deviations of every training series
\* are its x-paired squared deviations against the winner, the winner has the
\* least x-paired sum, first in column order among equals, and
\* maximum_deviation is the largest x-paired deviation.
C16_AlignedOnX ==
    ( pc = "selected" /\ SameXSet ) =>
        \A k \in DOMAIN training_result :
            LET t == TrainingOf(training_result[k])
                w == WinnerPos(training_result[k])
            IN  /\ saved_deviations[k].data = AlignedDev(t, w)
                /\ training_result[k].maximum_deviation = Largest(AlignedDev(t, w))
                /\ \A i \in IdealPositions :
                       SumSeq(AlignedDev(t, w)) <= SumSeq(AlignedDev(t, i))
                /\ \A i \in 1..(w - 1) :
                       SumSeq(AlignedDev(t, w)) < SumSeq(AlignedDev(t, i))

\* C17: when the ideal file does not have exactly the x values of the
\* training file, selection makes no Selection Record.
C17_DifferentXSetFails ==
    ~SameXSet =>
        /\ pc # "selected"
        /\ result_frames = <<>>
        /\ training_result = <<>>

-----------------------------------------------------------------------------
(* Properties of read_string_from_config and Database.__init__ *)

\* the keys Database.__init__ reads
DatabaseKeySet == {DatabaseKeys[k] : k \in DOMAIN DatabaseKeys}

\* the outcome of a direct call of read_string_from_config, by the entry of
\* the key in the config
ReadStringOutcome ==
    ( pc = "returned" /\ arg_key # "" ) =>
        IF arg_key \notin DOMAIN cfg
        THEN ret.exc = "KeyError"
        ELSE IF cfg[arg_key] = ""
        THEN /\ ret.exc = "EmptyKeyValueException"
             /\ ret.key = arg_key
        ELSE ret = Return(cfg[arg_key])

\* Database.__init__ has run
Constructed == arg_key = "" /\ pc \in {"raised", "read_data"}

\* C18 as stated: read_string_from_config returns cfg[key] when the key is
\* present with a non-empty value, raises KeyError when it is absent and
\* EmptyKeyValueException with the key when the value is ""; and Database
\* built with a config that lacks any of its four keys fails with KeyError
\* before the engine is created.
C18_MissingKeyIsKeyError ==
    /\ ReadStringOutcome
    /\ ( Constructed /\ DatabaseKeySet \ DOMAIN cfg # {} )
       => /\ pc = "raised"
          /\ raised = "KeyError"
          /\ ~engine

\* the first of the Database keys, in the order they are read, that is
\* missing or empty; 0 when there is none
FirstFaulty ==
    IF \E k \in DOMAIN DatabaseKeys :
           DatabaseKeys[k] \notin DOMAIN cfg \/ cfg[DatabaseKeys[k]] = ""
    THEN CHOOSE k \in DOMAIN DatabaseKeys :
             /\ DatabaseKeys[k] \notin DOMAIN cfg \/ cfg[DatabaseKeys[k]] = ""
             /\ \A j \in 1..(k - 1) :
                    DatabaseKeys[j] \in DOMAIN cfg /\ cfg[DatabaseKeys[j]] # ""
    ELSE 0

\* C18 amended: read_string_from_config as stated; Database built with a
\* config that has a missing or empty key among its four fails before the
\* engine is created, with the exception of the first such key in reading
\* order: KeyError when that key is missing, EmptyKeyValueException when it
\* is empty.  With the four keys present and non-empty the engine is created.
C18_FirstFaultyKeyDecides ==
    /\ ReadStringOutcome
    /\ Constructed =>
           IF FirstFaulty = 0
           THEN pc = "read_data" /\ engine /\ raised = ""
           ELSE /\ pc = "raised"
                /\ ~engine
                /\ raised = IF DatabaseKeys[FirstFaulty] \notin DOMAIN cfg
                            THEN "KeyError"
                            ELSE "EmptyKeyValueException"

\* C18 witness: Database was built with a config whose dbName is empty and
\* whose resultsTable is missing, and failed without an engine.
C18_Witness ==
    /\ Constructed
    /\ pc = "raised"
    /\ "dbName" \in DOMAIN cfg
    /\ cfg["dbName"] = ""
    /\ "resultsTable" \notin DOMAIN cfg
    /\ raised = "EmptyKeyValueException"
    /\ ~engine

-----------------------------------------------------------------------------
(* Independence of the iterations *)

\* the position of the first reference series with the least sum of squared
\* deviations from the samples t
BestPos(t) ==
    CHOOSE w \in IdealPositions :
        /\ \A i \in IdealPositions :
               SumSeq(SqDev(t, IdealData(w))) <= SumSeq(SqDev(t, IdealData(i)))
        /\ \A i \in 1..(w - 1) :
               SumSeq(SqDev(t, IdealData(w))) < SumSeq(SqDev(t, IdealData(i)))

\* the Selection Record and the deviation trace of a training column, from
\* that column and the reference library alone
SelectionOf(column) ==
    LET w == BestPos(column.data)
        d == SqDev(column.data, IdealData(w))
    IN  [record |-> [name |-> column.name,
                     maximum_deviation |-> Largest(d),
                     ideal_function |-> ideal_functions.columns[w].name],
         trace |-> [name |-> column.name, data |-> d]]

\* the matched rows of a test point for the first n Selection Records, from
\* the point, the records and the reference library alone
RECURSIVE MatchedRowsFor(_, _)
MatchedRowsFor(p, n) ==
    IF n = 0 THEN <<>>
    ELSE IF Accepts(training_result[n], p)
         THEN Append(MatchedRowsFor(p, n - 1),
                     [X |-> p.x, Y |-> p.y,
                      Delta_Y |-> float(AbsDiff(p.y, RefValue(training_result[n], p.x))),
                      No_of_ideal_func |-> training_result[n].ideal_function])
         ELSE MatchedRowsFor(p, n - 1)

\* the rows of a test point
RowsFor(p) ==
    IF MatchedRowsFor(p, Len(training_result)) = <<>>
    THEN << [X |-> p.x, Y |-> p.y, Delta_Y |-> str(""), No_of_ideal_func |-> ""] >>
    ELSE MatchedRowsFor(p, Len(training_result))

\* C19: the iterations are independent.  The Selection Record and the
\* deviation trace made for a training series are those of that series and
\* the reference library alone, whatever series were scanned before it; the
\* rows written for a test point are those of that point, the Selection
\* Records and the reference library alone, whatever points were read before
\* it; so the output is the concatenation, in input order, of what each
\* series and each point gives by itself.
C19_IterationsIndependent ==
    /\ \A k \in DOMAIN result_frames :
           LET s == SelectionOf(training_data.columns[k])
           IN  /\ result_frames[k] = s.record
               /\ deviations[k] = s.trace
    /\ training_result # <<>> =>
           /\ Len(training_result) = Len(training_data.columns)
           /\ training_result = result_frames
           /\ saved_deviations = deviations
    /\ ( pc = "row_loop" /\ test_file # <<>> )
           => RowsOf(result_df, Len(test_file)) = RowsFor(test_file[Len(test_file)])
    /\ pc = "mapped" =>
           /\ test_result = result_df
           /\ \A n \in DOMAIN test_file :
                  RowsOf(test_result, n) = RowsFor(test_file[n])

\* C19 witness: mapping has completed on two different test points after a
\* selection in which the second training series got another winner than the
\* first, with a larger least sum, and in which the first point was matched.
C19_Witness ==
    /\ pc = "mapped"
    /\ Len(test_file) = 2
    /\ test_file[1] # test_file[2]
    /\ training_result[1].ideal_function # training_result[2].ideal_function
    /\ SumSeq(saved_deviations[2].data) > SumSeq(saved_deviations[1].data)
    /\ test_result[1].No_of_ideal_func # ""

-----------------------------------------------------------------------------
(* Frame of find_ideal_functions and map_to_functions *)

\* C20: no step of find_ideal_functions or map_to_functions changes the
\* training table or the reference library, and no step of map_to_functions
\* changes the table of Selection Records it was given.
C20_InputsUnmodified ==
    [][ /\ training_data' = training_data
        /\ ideal_functions' = ideal_functions
        /\ pc \in {"selected", "row_loop", "column_loop"}
           => training_result' = training_result ]_vars

\* C20 witness: map_to_functions has returned the rows of two test points,
\* the first of them matched, and the Selection Records are those
\* find_ideal_functions returned.
C20_Witness ==
    /\ pc = "mapped"
    /\ Len(test_file) = 2
    /\ test_result[1].No_of_ideal_func # ""
    /\ training_result = result_frames
    /\ Len(training_result) = Len(training_data.columns)

-----------------------------------------------------------------------------
(* Precedence of the errors of _squared_error *)

\* the operand types _squared_error computes with
Supported == {"ndarray", "float64"}

\* C21: _squared_error tests for a type mismatch first, then for the index
\* count, then for an unsupported type: operands of two different types
\* raise TypesDoNotMatchException even when one or both types are
\* unsupported, IndexCountDoesNotMatchException is raised only for two
\* arrays of different lengths, and TypeError is raised exactly when both
\* operands have the same unsupported type.
C21_ErrorPrecedence ==
    pc = "returned" =>
        /\ arg_training.type # arg_ideal.type
           => ret = Raise("TypesDoNotMatchException")
        /\ ret.exc = "IndexCountDoesNotMatchException"
           <=> /\ arg_training.type = "ndarray"
               /\ arg_ideal.type = "ndarray"
               /\ Len(arg_training.val) # Len(arg_ideal.val)
        /\ ret.exc = "TypeError"
           <=> /\ arg_training.type = arg_ideal.type
               /\ arg_training.type \notin Supported

\* C21 witness: the call has raised TypesDoNotMatchException for an integer
\* scalar against a Python float, two different unsupported types.
C21_Witness ==
    /\ pc = "returned"
    /\ arg_training.type = "int64"
    /\ arg_ideal.type = "float"
    /\ ret.exc = "TypesDoNotMatchException"

-----------------------------------------------------------------------------
(* Connections of the Database *)

\* C22: every connection a Database operation opens is closed when the
\* operation returns, whether it returns a value or raises, so that no
\* connection is open between operations; and _update_table with data that
\* is no DataFrame raises TypeError without opening a connection.
C22_NoConnectionLeftOpen ==
    [][ /\ pc' = "database" => connections' = 0
        /\ ( ops' = ops + 1 /\ ret'.exc = "TypeError" )
           => /\ connections' = connections
              /\ pc' = "database" ]_vars

-----------------------------------------------------------------------------
(* The Plotter and the table of Selection Records *)

\* C23: the Plotter reads back what the selector wrote.  Once selection and
\* mapping have succeeded, the results table is written and the plots have
\* been attempted, Plotter._found_ideal and Plotter._points_by_name get, for
\* every training series of the table of Selection Records, the ideal
\* function the selector recorded, and the run has not ended with KeyError.
C23_PlotterReadsSelection ==
    ( /\ pc \in {"shown", "raised"}
      /\ engine
      /\ FullConfig.resultsTable \in DOMAIN tables )
    => /\ \A k \in DOMAIN training_result :
              /\ _found_ideal(training_result, training_result[k].name)
                     = Return(training_result[k].ideal_function)
              /\ _points_by_name(training_result, test_result,
                                 training_result[k].name, "==").exc = ""
       /\ raised # "KeyError"

=============================================================================
